---- MODULE Spec2Model ----
(***************************************************************************)
(* A model of sg/data/sintef/eb_userloads.py: the UserLoads class (a       *)
(* dict-like, late-loading view of per-user load series kept in an HDF5    *)
(* file) and the aggregation function total_load built on top of it.       *)
(*                                                                         *)
(* Python objects are modelled with a heap: a series object is a reference *)
(* (a number) and heap[r] is the series the object currently holds.  The   *)
(* dict _loads maps user ids to references, so "the same object" and "an   *)
(* equal series" are different things in the model, as they are in Python. *)
(*                                                                         *)
(* One step of the model is one call made by a client of the module.  The  *)
(* variables op, ret, storeReads and pre record the last call, what it     *)
(* returned or raised, how many series it asked the HDF5 store for, and    *)
(* the cache as it was just before the call.                               *)
(***************************************************************************)
EXTENDS Integers, Sequences, FiniteSets, TLC

\* ------------------------------------------------------------------ bounds
\* Number of user ids that have a series in the HDF5 file.
NumIds == 2
\* Number of timestamps of a load series.
NumTimes == 2
\* Series assigned by a client hold one value in 0..MaxVal at every timestamp.
MaxVal == 0
\* Longest list of user ids handed to total_load.
MaxIdsLen == 2
\* Largest num_users handed to mean_experiment_load_for_user_subset.
MaxUsers == 2

\* ------------------------------------------------------------ value spaces
\* The ids with a node "id_<n>" in the file.
FileIds == 1..NumIds
\* The ids a client may ask for: those of the file and one the file lacks.
MaxId == NumIds + 1
Universe == 1..MaxId
\* The ids listed under 'user_ids_cln_pred_exp' (a curated subset).
ExperimentIds == 1..(NumIds - 1)
Times == 1..NumTimes
\* Object references; enough for every object alive before and after a call.
Refs == 1..(2 * MaxId + 1)
NoRef == 0
NoId == 0

\* The series stored in the file for user_id (distinct per id, not constant).
StoredSeries(user_id) == [t \in Times |-> user_id + t]
\* The series a client assigns through __setitem__ or the loads view.
UserSeries == {[t \in Times |-> c] : c \in 0..MaxVal}
\* The periods handed to total_load: (start, end), possibly start > end.
Periods == Times \X Times
\* The id lists handed to total_load.
IdLists == UNION {[1..n -> Universe] : n \in 0..MaxIdsLen}

\* Exceptions.
KeyError == "KeyError"
IndexError == "IndexError"
AttributeError == "AttributeError"
ClosedFileError == "ClosedFileError"

\* The names the specification gives to these failures.
UnknownIdentifier == KeyError
EmptyIdentifierSet == IndexError
StoreClosed == ClosedFileError

VARIABLES
    cls,         \* the class of the object: UserLoads or UserLoads_Experiment
    store,       \* self._store: the HDF5 file (open flag, id lists, nodes)
    user_ids,    \* self._user_ids
    loads,       \* self._loads: user id -> reference of the cached series
    heap,        \* reference -> series held by that object
    op,          \* the last call and its arguments
    ret,         \* what the last call returned or raised
    storeReads,  \* number of series the last call asked the store for
    pre          \* _loads, the series in it and the store before the last call

vars == <<cls, store, user_ids, loads, heap, op, ret, storeReads, pre>>

\* ----------------------------------------------------------------- helpers
Range(f) == {f[x] : x \in DOMAIN f}
Put(f, k, v) == [x \in (DOMAIN f) \cup {k} |-> IF x = k THEN v ELSE f[x]]
Drop(f, k) == [x \in (DOMAIN f) \ {k} |-> f[x]]
EmptyMap == [x \in {} |-> NoRef]

\* What a call gives back: None, a series object, a bool, or an exception.
RetNone == [tag |-> "none", ref |-> NoRef, bool |-> FALSE, exc |-> ""]
RetRef(r) == [tag |-> "ref", ref |-> r, bool |-> FALSE, exc |-> ""]
RetBool(b) == [tag |-> "bool", ref |-> NoRef, bool |-> b, exc |-> ""]
Raise(e) == [tag |-> "raise", ref |-> NoRef, bool |-> FALSE, exc |-> e]

\* A call: its name, the user id, the series object and the series it holds
\* (for an assignment), the id list and the period (for total_load), and
\* num_users (for mean_experiment_load_for_user_subset).
Call(name, id, ref, ids, period) ==
    [name |-> name, id |-> id, ref |-> ref, series |-> <<>>,
     ids |-> ids, period |-> period, num_users |-> 0]

\* "id_" + str(user_id): the key of the node holding user_id's series.
StoreKey(user_id) == <<"id_", user_id>>

\* The content of the HDF5 file.
FileNodes == [k \in {StoreKey(i) : i \in FileIds} |-> StoredSeries(k[2])]

\* pd.HDFStore(path, "r"): the file, open for reading.
HDFStore ==
    [open |-> TRUE, user_ids |-> FileIds,
     user_ids_cln_pred_exp |-> ExperimentIds, nodes |-> FileNodes]

\* The running state of one call: the dict, the heap, the store accesses made
\* so far and the value returned or exception raised by the last statement.
Ctx(l, h) == [loads |-> l, heap |-> h, reads |-> 0, ret |-> RetNone]

\* A new object: the least reference not used by any object of the heap.
NewRef(h) == CHOOSE r \in Refs \ DOMAIN h : \A q \in Refs \ DOMAIN h : r <= q

\* ------------------------------------------------------------- UserLoads
\* _load_user_ids of UserLoads and of UserLoads_Experiment.
LoadUserIds(class, st) ==
    IF class = "UserLoads_Experiment" THEN st.user_ids_cln_pred_exp ELSE st.user_ids

\* A store that still answers after close().
StoreGetItem_after_close(c, key) ==
    LET c1 == [c EXCEPT !.reads = @ + 1] IN
    IF key \notin DOMAIN store.nodes THEN [c1 EXCEPT !.ret = Raise(KeyError)]
    ELSE LET r == NewRef(c1.heap) IN
         [c1 EXCEPT !.heap = Put(@, r, store.nodes[key]), !.ret = RetRef(r)]

\* self._store[key]: a new object holding the node's series.
StoreGetItem(c, key) ==
    LET c1 == [c EXCEPT !.reads = @ + 1] IN
    IF ~store.open THEN [c1 EXCEPT !.ret = Raise(ClosedFileError)]
    ELSE IF key \notin DOMAIN store.nodes THEN [c1 EXCEPT !.ret = Raise(KeyError)]
    ELSE LET r == NewRef(c1.heap) IN
         [c1 EXCEPT !.heap = Put(@, r, store.nodes[key]), !.ret = RetRef(r)]

\* read without line 55: the series is returned but not kept in _loads.
read_not_kept(c, user_id) ==
    IF user_id \notin user_ids THEN [c EXCEPT !.ret = Raise(KeyError)]
    ELSE StoreGetItem(c, StoreKey(user_id))

\* read without the test of line 51: any id is looked up in the file.
read_unchecked(c, user_id) ==
    LET c1 == StoreGetItem(c, StoreKey(user_id)) IN
    IF c1.ret.tag = "raise" THEN c1
    ELSE [c1 EXCEPT !.loads = Put(@, user_id, c1.ret.ref)]

\* read that returns the series _loads holds already, when it holds one.
read_keeps_cached(c, user_id) ==
    IF user_id \notin user_ids THEN [c EXCEPT !.ret = Raise(KeyError)]
    ELSE IF user_id \in DOMAIN c.loads THEN [c EXCEPT !.ret = RetRef(c.loads[user_id])]
    ELSE LET c1 == StoreGetItem(c, StoreKey(user_id)) IN
         IF c1.ret.tag = "raise" THEN c1
         ELSE [c1 EXCEPT !.loads = Put(@, user_id, c1.ret.ref)]

\* read that drops the series _loads holds before it looks at the id and
\* at the file.
read_drops_first(c, user_id) ==
    LET c0 == [c EXCEPT !.loads = Drop(@, user_id)] IN
    IF user_id \notin user_ids THEN [c0 EXCEPT !.ret = Raise(KeyError)]
    ELSE LET c1 == StoreGetItem(c0, StoreKey(user_id)) IN
         IF c1.ret.tag = "raise" THEN c1
         ELSE [c1 EXCEPT !.loads = Put(@, user_id, c1.ret.ref)]

\* UserLoads.read
read(c, user_id) ==
    IF user_id \notin user_ids THEN [c EXCEPT !.ret = Raise(KeyError)]
    ELSE LET c1 == StoreGetItem(c, StoreKey(user_id)) IN
         IF c1.ret.tag = "raise" THEN c1
         ELSE [c1 EXCEPT !.loads = Put(@, user_id, c1.ret.ref)]

\* __getitem__ without the test of line 67: every access reads the file.
getitem_always_reads(c, user_id) == read(c, user_id)

\* UserLoads.__getitem__
getitem(c, user_id) ==
    IF user_id \notin DOMAIN c.loads THEN read(c, user_id)
    ELSE [c EXCEPT !.ret = RetRef(c.loads[user_id])]

\* __setitem__ without line 79: the id is checked, the load is not kept.
setitem_not_kept(c, user_id, user_load) ==
    IF user_id \notin user_ids THEN [c EXCEPT !.ret = Raise(KeyError)]
    ELSE [c EXCEPT !.ret = RetNone]

\* __setitem__ without the test of line 76: any id is accepted.
setitem_unchecked(c, user_id, user_load) ==
    [c EXCEPT !.loads = Put(@, user_id, user_load), !.ret = RetNone]

\* UserLoads.__setitem__
setitem(c, user_id, user_load) ==
    IF user_id \notin user_ids THEN [c EXCEPT !.ret = Raise(KeyError)]
    ELSE [c EXCEPT !.loads = Put(@, user_id, user_load), !.ret = RetNone]

\* pop returning self._loads[user_id]: the entry stays in the dict.
pop_not_removed(c, user_id) ==
    IF user_id \notin user_ids THEN [c EXCEPT !.ret = Raise(KeyError)]
    ELSE LET c1 == IF user_id \notin DOMAIN c.loads THEN read(c, user_id) ELSE c IN
         IF c1.ret.tag = "raise" THEN c1
         ELSE [c1 EXCEPT !.ret = RetRef(c1.loads[user_id])]

\* UserLoads.pop
pop(c, user_id) ==
    IF user_id \notin user_ids THEN [c EXCEPT !.ret = Raise(KeyError)]
    ELSE LET c1 == IF user_id \notin DOMAIN c.loads THEN read(c, user_id) ELSE c IN
         IF c1.ret.tag = "raise" THEN c1
         ELSE [c1 EXCEPT !.ret = RetRef(c1.loads[user_id]),
                         !.loads = Drop(@, user_id)]

\* read_all that goes through __getitem__: a series _loads holds is kept.
RECURSIVE read_all_keeps_cached(_, _)
read_all_keeps_cached(c, todo) ==
    IF todo = {} THEN [c EXCEPT !.ret = RetNone]
    ELSE LET user_id == CHOOSE i \in todo : \A j \in todo : i <= j
             c1 == getitem(c, user_id)
         IN  IF c1.ret.tag = "raise" THEN c1
             ELSE read_all_keeps_cached(c1, todo \ {user_id})

\* UserLoads.read_all: the loop over self.user_ids, todo the ids not yet read.
RECURSIVE read_all(_, _)
read_all(c, todo) ==
    IF todo = {} THEN [c EXCEPT !.ret = RetNone]
    ELSE LET user_id == CHOOSE i \in todo : \A j \in todo : i <= j
             c1 == read(c, user_id)
         IN  IF c1.ret.tag = "raise" THEN c1 ELSE read_all(c1, todo \ {user_id})

\* UserLoads.__contains__: self.user_id is not an attribute of the class.
contains(c, user_id) == [c EXCEPT !.ret = Raise(AttributeError)]

\* ------------------------------------------------------------ total_load
\* Slicing that leaves the end out, as positions are sliced.
Slice_half_open(series, period) ==
    [t \in {u \in DOMAIN series : period[1] <= u /\ u < period[2]} |-> series[t]]

\* series[period[0]:period[1]]: label slicing, both ends included.
Slice(series, period) ==
    [t \in {u \in DOMAIN series : period[1] <= u /\ u <= period[2]} |-> series[t]]

\* total += single_series, for series over the same timestamps.
Add(total, single_series) == [t \in DOMAIN total |-> total[t] + single_series[t]]

\* [userloads[user][period[0]:period[1]] for user in user_ids], from the
\* k-th user on; series holds the slices made so far.
RECURSIVE slices(_, _, _, _, _)
slices(c, ids, period, k, series) ==
    IF k > Len(ids) THEN [c |-> c, series |-> series]
    ELSE LET c1 == getitem(c, ids[k]) IN
         IF c1.ret.tag = "raise" THEN [c |-> c1, series |-> series]
         ELSE slices(c1, ids, period, k + 1,
                     Append(series, Slice(c1.heap[c1.ret.ref], period)))

\* The loop over series[1:].
RECURSIVE accumulate(_, _, _)
accumulate(total, series, k) ==
    IF k > Len(series) THEN total
    ELSE accumulate(Add(total, series[k]), series, k + 1)

\* total_load that answers an empty series when given no user.
total_load_empty_total(c, ids, period) ==
    LET s == slices([c EXCEPT !.ret = RetNone], ids, period, 1, <<>>) IN
    IF s.c.ret.tag = "raise" THEN s.c
    ELSE LET r == NewRef(s.c.heap)
             total == IF s.series = <<>> THEN <<>>
                      ELSE accumulate(s.series[1], s.series, 2)
         IN  [s.c EXCEPT !.heap = Put(@, r, total), !.ret = RetRef(r)]

\* total_load with total = series[0], no copy: the sums are accumulated in
\* the storage of the series _loads holds for the first user.
total_load_no_copy(c, ids, period) ==
    LET s == slices([c EXCEPT !.ret = RetNone], ids, period, 1, <<>>) IN
    IF s.c.ret.tag = "raise" THEN s.c
    ELSE IF s.series = <<>> THEN [s.c EXCEPT !.ret = Raise(IndexError)]
    ELSE LET r == s.c.loads[ids[1]]
             total == accumulate(s.series[1], s.series, 2)
         IN  [s.c EXCEPT !.heap[r] = [t \in DOMAIN @ |->
                                        IF t \in DOMAIN total THEN total[t] ELSE @[t]],
                         !.ret = RetRef(r)]

\* total_load(userloads, user_ids, period)
total_load(c, ids, period) ==
    LET s == slices([c EXCEPT !.ret = RetNone], ids, period, 1, <<>>) IN
    IF s.c.ret.tag = "raise" THEN s.c
    ELSE IF s.series = <<>> THEN [s.c EXCEPT !.ret = Raise(IndexError)]
    ELSE LET r == NewRef(s.c.heap)
             total == accumulate(s.series[1], s.series, 2)
         IN  [s.c EXCEPT !.heap = Put(@, r, total), !.ret = RetRef(r)]

\* ------------------------------------------------------------------ NSK129
\* NSK129_user_ids(): a list of distinct ids, here the ids of the file.
NSK129_user_ids == [k \in 1..NumIds |-> k]

\* The loop of NSK129 from the k-th id on.  total is the object
\* read(nsk129[0]) returned, the one _loads holds for that id, and
\* total += ... adds into that object.
RECURSIVE NSK129_loop(_, _, _)
NSK129_loop(c, total, k) ==
    IF k > Len(NSK129_user_ids) THEN [c EXCEPT !.ret = RetRef(total)]
    ELSE LET c1 == read(c, NSK129_user_ids[k]) IN
         IF c1.ret.tag = "raise" THEN c1
         ELSE NSK129_loop([c1 EXCEPT !.heap[total] = Add(@, c1.heap[c1.ret.ref])],
                          total, k + 1)

\* NSK129(userloads)
NSK129(c) ==
    LET c1 == read(c, NSK129_user_ids[1]) IN
    IF c1.ret.tag = "raise" THEN c1 ELSE NSK129_loop(c1, c1.ret.ref, 2)

\* ------------------------------------------------- experiment loads
\* experiment_periods(): the two preselected periods, one after the other.
experiment_periods ==
    <<<<1, NumTimes \div 2>>, <<NumTimes \div 2 + 1, NumTimes>>>>

\* The orders np.random.RandomState(seed).permutation may put the ids in.
permutation_orders(ids) ==
    {q \in [1..Cardinality(ids) -> ids] :
        \A j, k \in 1..Cardinality(ids) : q[j] = q[k] => j = k}

\* permutation[:num_users]
Truncate(permutation, num_users) ==
    SubSeq(permutation, 1,
           IF num_users < Len(permutation) THEN num_users ELSE Len(permutation))

\* l / n for a series l: every value becomes the quotient <<value, n>>.
Divide(l, n) == [t \in DOMAIN l |-> <<l[t], n>>]

\* total_load_in_experiment_periods: total_load for the k-th period on;
\* totals holds the objects returned so far.
RECURSIVE total_load_in_experiment_periods(_, _, _, _)
total_load_in_experiment_periods(c, ids, k, totals) ==
    IF k > Len(experiment_periods) THEN [c |-> c, totals |-> totals]
    ELSE LET c1 == total_load(c, ids, experiment_periods[k]) IN
         IF c1.ret.tag = "raise" THEN [c |-> c1, totals |-> totals]
         ELSE total_load_in_experiment_periods(c1, ids, k + 1,
                                               Append(totals, c1.ret.ref))

\* The mean that divides by num_users, whatever the number of ids drawn.
mean_over_num_users(c, num_users, permutation) ==
    LET ids == Truncate(permutation, num_users)
        t == total_load_in_experiment_periods(c, ids, 1, <<>>)
    IN  IF t.c.ret.tag = "raise" THEN t.c
        ELSE LET r == NewRef(t.c.heap) IN
             [t.c EXCEPT !.ret = RetRef(r),
                         !.heap = Put(@, r, [k \in DOMAIN t.totals |->
                                      Divide(t.c.heap[t.totals[k]], num_users)])]

\* mean_experiment_load_for_user_subset(num_users, seed), permutation the
\* order the generator seeded with seed puts loads.user_ids in.  The list
\* returned is one object, holding the series of the two periods.
mean_experiment_load_for_user_subset(c, num_users, permutation) ==
    LET ids == Truncate(permutation, num_users)
        t == total_load_in_experiment_periods(c, ids, 1, <<>>)
    IN  IF t.c.ret.tag = "raise" THEN t.c
        ELSE LET r == NewRef(t.c.heap) IN
             [t.c EXCEPT !.ret = RetRef(r),
                         !.heap = Put(@, r, [k \in DOMAIN t.totals |->
                                      Divide(t.c.heap[t.totals[k]], Len(ids))])]

\* ------------------------------------------------- committing one call
\* A client makes one call at a time, on a cache no call is running on.
Ready == op.name \in {"init", "idle"}

\* The state after a call that ran to the context c: the objects no longer
\* referenced by _loads, by the call's argument or by its result are gone.
Commit(call, c) ==
    LET kept == Range(c.loads) \cup ({call.ref, c.ret.ref} \ {NoRef}) IN
    /\ Ready
    /\ loads' = c.loads
    /\ heap' = [r \in kept |-> c.heap[r]]
    /\ op' = call
    /\ ret' = c.ret
    /\ storeReads' = c.reads
    /\ pre' = [loads |-> loads,
               vals |-> [i \in DOMAIN loads |-> heap[loads[i]]],
               store |-> store,
               fresh |-> (op.name = "init")]

\* The position of user_id among the keys of the dict l.
SlotRank(l, user_id) == Cardinality({j \in DOMAIN l : j < user_id}) + 1

\* ------------------------------------------------------------------ calls
\* x = userloads[user_id]
GetItem(user_id) ==
    /\ Commit(Call("getitem", user_id, NoRef, <<>>, <<>>),
              getitem(Ctx(loads, heap), user_id))
    /\ UNCHANGED <<cls, store, user_ids>>

\* userloads[user_id] = user_load, user_load a series object of the client
SetItem(user_id, series) ==
    LET r == NewRef(heap)
        c == Ctx(loads, Put(heap, r, series))
        call == [Call("setitem", user_id, r, <<>>, <<>>) EXCEPT !.series = series]
    IN  /\ Commit(call, setitem(c, user_id, r))
        /\ UNCHANGED <<cls, store, user_ids>>

\* userloads.read(user_id)
Read(user_id) ==
    /\ Commit(Call("read", user_id, NoRef, <<>>, <<>>),
              read(Ctx(loads, heap), user_id))
    /\ UNCHANGED <<cls, store, user_ids>>

\* userloads.read_all()
ReadAll ==
    /\ Commit(Call("read_all", NoId, NoRef, <<>>, <<>>),
              read_all(Ctx(loads, heap), user_ids))
    /\ UNCHANGED <<cls, store, user_ids>>

\* userloads.pop(user_id)
Pop(user_id) ==
    /\ Commit(Call("pop", user_id, NoRef, <<>>, <<>>), pop(Ctx(loads, heap), user_id))
    /\ UNCHANGED <<cls, store, user_ids>>

\* user_id in userloads
Contains(user_id) ==
    /\ Commit(Call("contains", user_id, NoRef, <<>>, <<>>),
              contains(Ctx(loads, heap), user_id))
    /\ UNCHANGED <<cls, store, user_ids>>

\* close that fails on a store closed already.
Close_fails_when_closed ==
    /\ store' = [store EXCEPT !.open = FALSE]
    /\ Commit(Call("close", NoId, NoRef, <<>>, <<>>),
              [Ctx(loads, heap) EXCEPT
                  !.ret = IF store.open THEN RetNone ELSE Raise(ClosedFileError)])
    /\ UNCHANGED <<cls, user_ids>>

\* userloads.close(): closing an HDFStore that is closed already does nothing.
Close ==
    /\ store' = [store EXCEPT !.open = FALSE]
    /\ Commit(Call("close", NoId, NoRef, <<>>, <<>>), Ctx(loads, heap))
    /\ UNCHANGED <<cls, user_ids>>

\* UserLoads.__del__, when the object is collected: the same close of the
\* HDFStore.  No call is made on the object afterwards.
Del ==
    /\ store' = [store EXCEPT !.open = FALSE]
    /\ Commit(Call("del", NoId, NoRef, <<>>, <<>>), Ctx(loads, heap))
    /\ UNCHANGED <<cls, user_ids>>

\* userloads.loads[user_id] = user_load: the dict itself, no check of the id.
LoadsSetItem(user_id, series) ==
    LET r == NewRef(heap)
        c == Ctx(Put(loads, user_id, r), Put(heap, r, series))
        call == [Call("loads_setitem", user_id, r, <<>>, <<>>) EXCEPT !.series = series]
    IN  /\ Commit(call, c)
        /\ UNCHANGED <<cls, store, user_ids>>

\* total_load(userloads, ids, period)
TotalLoad(ids, period) ==
    /\ Commit(Call("total_load", NoId, NoRef, ids, period),
              total_load(Ctx(loads, heap), ids, period))
    /\ UNCHANGED <<cls, store, user_ids>>

\* NSK129(userloads)
NSK129Load ==
    /\ Commit(Call("NSK129", NoId, NoRef, NSK129_user_ids, <<>>),
              NSK129(Ctx(loads, heap)))
    /\ UNCHANGED <<cls, store, user_ids>>

\* mean_experiment_load_for_user_subset(num_users, seed): the loads are
\* those of tempfeeder_exp(), the UserLoads_Experiment object of the module.
MeanExperimentLoad(num_users, permutation) ==
    /\ cls = "UserLoads_Experiment"
    /\ Commit([Call("mean_experiment_load", NoId, NoRef, permutation, <<>>)
                  EXCEPT !.num_users = num_users],
              mean_experiment_load_for_user_subset(Ctx(loads, heap), num_users,
                                                   permutation))
    /\ UNCHANGED <<cls, store, user_ids>>

\* The client lets go of what the last call returned.  References are
\* renumbered in the order of the user ids holding them, so that the state
\* does not depend on the order in which the objects were created.
Done ==
    /\ ~Ready
    /\ op.name # "del"
    /\ loads' = [i \in DOMAIN loads |-> SlotRank(loads, i)]
    /\ heap' = [r \in {SlotRank(loads, i) : i \in DOMAIN loads} |->
                  heap[loads[CHOOSE i \in DOMAIN loads : SlotRank(loads, i) = r]]]
    /\ op' = Call("idle", NoId, NoRef, <<>>, <<>>)
    /\ ret' = RetNone
    /\ storeReads' = 0
    /\ pre' = [loads |-> loads', vals |-> [i \in DOMAIN loads |-> heap[loads[i]]],
               store |-> store, fresh |-> FALSE]
    /\ UNCHANGED <<cls, store, user_ids>>

\* UserLoads.__init__ on a file holding FileNodes.
Init ==
    /\ store = HDFStore
    /\ cls \in {"UserLoads", "UserLoads_Experiment"}
    /\ user_ids = LoadUserIds(cls, store)
    /\ loads = EmptyMap
    /\ heap = EmptyMap
    /\ op = Call("init", NoId, NoRef, <<>>, <<>>)
    /\ ret = RetNone
    /\ storeReads = 0
    /\ pre = [loads |-> EmptyMap, vals |-> EmptyMap, store |-> store, fresh |-> TRUE]

Next ==
    \/ \E user_id \in Universe : GetItem(user_id)
    \/ \E user_id \in Universe, series \in UserSeries : SetItem(user_id, series)
    \/ \E user_id \in Universe : Read(user_id)
    \/ ReadAll
    \/ \E user_id \in Universe : Pop(user_id)
    \/ \E user_id \in Universe : Contains(user_id)
    \/ Close
    \/ Del
    \/ \E user_id \in Universe, series \in UserSeries : LoadsSetItem(user_id, series)
    \/ \E ids \in IdLists, period \in Periods : TotalLoad(ids, period)
    \/ NSK129Load
    \/ \E num_users \in 0..MaxUsers, permutation \in permutation_orders(user_ids) :
          MeanExperimentLoad(num_users, permutation)
    \/ Done

Spec == Init /\ [][Next]_vars

\* The calls of UserLoads that read, assign, remove and close, without the
\* loads view: what a client does that never touches the dict itself.
NextApi ==
    \/ \E user_id \in Universe : GetItem(user_id)
    \/ \E user_id \in Universe, series \in UserSeries : SetItem(user_id, series)
    \/ \E user_id \in Universe : Read(user_id)
    \/ ReadAll
    \/ \E user_id \in Universe : Pop(user_id)
    \/ Close
    \/ Done

SpecApi == Init /\ [][NextApi]_vars

\* ------------------------------------------------------------- properties
\* The series _loads holds for user_id now, and the one it held before the call.
Cached(user_id) == heap[loads[user_id]]
CachedBefore(user_id) == pre.vals[user_id]

\* _loads holds for user_id the same object, with the same series, as before
\* the last call (or holds nothing for it, as before).
EntryUnchanged(user_id) ==
    /\ (user_id \in DOMAIN loads) = (user_id \in DOMAIN pre.loads)
    /\ user_id \in DOMAIN loads =>
          loads[user_id] = pre.loads[user_id] /\ Cached(user_id) = CachedBefore(user_id)

LoadsUnchanged == \A user_id \in Universe : EntryUnchanged(user_id)

\* C1: on a cache just constructed, userloads[id] for an id of user_ids
\* returns a series equal to the one stored in the file for id, and
\* afterwards _loads holds that series for id.
C1_FirstGetReturnsStored ==
    (op.name = "getitem" /\ pre.fresh /\ op.id \in user_ids) =>
        /\ ret.tag = "ref"
        /\ heap[ret.ref] = StoredSeries(op.id)
        /\ op.id \in DOMAIN loads
        /\ Cached(op.id) = StoredSeries(op.id)

C1_Witness ==
    /\ op.name = "getitem" /\ pre.fresh /\ op.id \in user_ids
    /\ ret.tag = "ref" /\ heap[ret.ref] = StoredSeries(op.id)
    /\ op.id \in DOMAIN loads

\* C2: with the store open, userloads[id] for a valid id that _loads does
\* not hold reads the file exactly once, keeps the series read, unmodified,
\* in _loads and returns it; userloads[id] for an id that _loads holds reads
\* nothing and returns the very object _loads holds, leaving _loads alone.
C2_ReadOnceThenCache ==
    (op.name = "getitem" /\ pre.store.open) =>
        /\ (op.id \in user_ids /\ op.id \notin DOMAIN pre.loads) =>
              /\ storeReads = 1
              /\ ret.tag = "ref"
              /\ heap[ret.ref] = StoredSeries(op.id)
              /\ op.id \in DOMAIN loads /\ loads[op.id] = ret.ref
              /\ \A other \in Universe \ {op.id} : EntryUnchanged(other)
        /\ op.id \in DOMAIN pre.loads =>
              /\ storeReads = 0
              /\ ret = RetRef(pre.loads[op.id])
              /\ LoadsUnchanged

C2_Witness ==
    /\ op.name = "getitem" /\ pre.store.open
    /\ op.id \in DOMAIN pre.loads /\ CachedBefore(op.id) # StoredSeries(op.id)
    /\ storeReads = 0 /\ ret = RetRef(loads[op.id])

\* C3: after userloads[id] = v for a valid id, userloads[id] returns v itself
\* (the object assigned, which still holds the series assigned), without
\* reading the file; the assignment reads nothing from the store and leaves
\* the store as it was.
C3_SetThenGet ==
    (op.name = "setitem" /\ op.id \in user_ids) =>
        LET get == getitem(Ctx(loads, heap), op.id) IN
        /\ ret = RetNone
        /\ get.ret = RetRef(op.ref)
        /\ get.heap[op.ref] = op.series
        /\ get.reads = 0
        /\ storeReads = 0
        /\ store = pre.store
        /\ store.nodes = FileNodes

C3_Witness ==
    /\ op.name = "setitem" /\ op.id \in user_ids /\ pre.store.open
    /\ op.id \in DOMAIN pre.loads /\ CachedBefore(op.id) = StoredSeries(op.id)
    /\ getitem(Ctx(loads, heap), op.id).ret = RetRef(op.ref)
    /\ heap[op.ref] # StoredSeries(op.id)

\* C4: with the store open, userloads.read(id) for a valid id returns the
\* series stored in the file and leaves it in _loads, whatever _loads held
\* for id before (a series assigned before is gone), and changes no other
\* entry of _loads; in particular right after userloads[id] = v.
C4_SetThenForceRead ==
    /\ (op.name = "read" /\ op.id \in user_ids /\ pre.store.open) =>
          /\ ret.tag = "ref"
          /\ heap[ret.ref] = StoredSeries(op.id)
          /\ op.id \in DOMAIN loads /\ loads[op.id] = ret.ref
          /\ \A other \in Universe \ {op.id} : EntryUnchanged(other)
    /\ (op.name = "setitem" /\ op.id \in user_ids /\ store.open) =>
          LET c == read(Ctx(loads, heap), op.id) IN
          /\ c.ret.tag = "ref"
          /\ c.ret.ref # op.ref
          /\ c.heap[c.ret.ref] = StoredSeries(op.id)
          /\ c.loads = [loads EXCEPT ![op.id] = c.ret.ref]
          /\ \A other \in DOMAIN loads \ {op.id} : c.heap[c.loads[other]] = Cached(other)

C4_Witness ==
    /\ op.name = "read" /\ op.id \in user_ids /\ pre.store.open
    /\ op.id \in DOMAIN pre.loads /\ CachedBefore(op.id) \in UserSeries
    /\ Cached(op.id) = StoredSeries(op.id) /\ loads[op.id] = ret.ref
    /\ \E other \in DOMAIN loads : other # op.id /\ Cached(other) \in UserSeries

\* C5 as stated: pop(id) for a valid id always returns the series _loads
\* holds for id (the stored series when it held none), removes the entry,
\* keeps id in user_ids and changes no other entry.
C5_PopAlwaysReturns ==
    (op.name = "pop" /\ op.id \in user_ids) =>
        /\ ret.tag = "ref"
        /\ heap[ret.ref] = IF op.id \in DOMAIN pre.loads THEN CachedBefore(op.id)
                            ELSE StoredSeries(op.id)
        /\ op.id \notin DOMAIN loads
        /\ op.id \in user_ids
        /\ \A other \in Universe \ {op.id} : EntryUnchanged(other)

\* C5 amended: the same when the store is open or _loads holds a series for
\* id (pop then returns the very object _loads held); when the store is
\* closed and _loads holds nothing for id, pop raises the closed-store error
\* and leaves _loads as it was.
C5_Pop ==
    (op.name = "pop" /\ op.id \in user_ids) =>
        IF pre.store.open \/ op.id \in DOMAIN pre.loads
        THEN /\ ret.tag = "ref"
             /\ heap[ret.ref] = IF op.id \in DOMAIN pre.loads THEN CachedBefore(op.id)
                                 ELSE StoredSeries(op.id)
             /\ op.id \in DOMAIN pre.loads => ret.ref = pre.loads[op.id]
             /\ op.id \notin DOMAIN loads
             /\ op.id \in user_ids
             /\ \A other \in Universe \ {op.id} : EntryUnchanged(other)
        ELSE ret = Raise(StoreClosed) /\ LoadsUnchanged

C5_Witness ==
    /\ op.name = "pop" /\ op.id \in user_ids
    /\ op.id \in DOMAIN pre.loads /\ CachedBefore(op.id) \in UserSeries
    /\ ret.tag = "ref" /\ heap[ret.ref] = CachedBefore(op.id)
    /\ op.id \notin DOMAIN loads
    /\ DOMAIN loads # {}

\* C6 as stated: for an id that is not in user_ids, userloads[id],
\* userloads[id] = v and pop(id) raise KeyError, read nothing from the store
\* and leave _loads as it was, whatever _loads holds.
C6_UnknownIdAlwaysFails ==
    (op.name \in {"getitem", "setitem", "pop"} /\ op.id \notin user_ids) =>
        ret = Raise(UnknownIdentifier) /\ storeReads = 0 /\ LoadsUnchanged

\* C6 amended: that holds of userloads[id] = v and pop(id) whatever _loads
\* holds, and of userloads[id] when _loads holds nothing for id; when _loads
\* holds a series for id (put there through the loads view), userloads[id]
\* returns it.  No case reads the store or changes _loads.
C6_UnknownId ==
    (op.name \in {"getitem", "setitem", "pop"} /\ op.id \notin user_ids) =>
        /\ storeReads = 0
        /\ LoadsUnchanged
        /\ IF op.name = "getitem" /\ op.id \in DOMAIN pre.loads
           THEN ret = RetRef(pre.loads[op.id])
           ELSE ret = Raise(UnknownIdentifier)

C6_Witness ==
    /\ op.name = "pop" /\ op.id \notin user_ids
    /\ op.id \in DOMAIN pre.loads
    /\ ret = Raise(UnknownIdentifier)
    /\ op.id \in DOMAIN loads

\* C7: "id in userloads" answers a bool, True exactly for the ids of
\* user_ids, and changes nothing.
C7_ContainsIsMembership ==
    op.name = "contains" =>
        /\ ret = RetBool(op.id \in user_ids)
        /\ LoadsUnchanged
        /\ store = pre.store

\* C8 as stated: once the store is closed, userloads[id] and read(id) raise
\* the closed-store error for every valid id.
C8_ClosedAlwaysFails ==
    (op.name \in {"getitem", "read"} /\ op.id \in user_ids /\ ~pre.store.open) =>
        ret = Raise(StoreClosed)

\* C8 amended: once the store is closed, read(id) raises the closed-store
\* error for every valid id, and userloads[id] raises it exactly when _loads
\* holds nothing for id; when _loads holds a series for id, userloads[id]
\* returns it.  The store stays closed and _loads is left as it was.
C8_Closed ==
    (op.name \in {"getitem", "read"} /\ op.id \in user_ids /\ ~pre.store.open) =>
        /\ ~store.open
        /\ LoadsUnchanged
        /\ IF op.name = "getitem" /\ op.id \in DOMAIN pre.loads
           THEN ret = RetRef(pre.loads[op.id])
           ELSE ret = Raise(StoreClosed)

C8_Witness ==
    /\ op.name = "read" /\ op.id \in user_ids /\ ~pre.store.open
    /\ op.id \in DOMAIN pre.loads
    /\ ret = Raise(StoreClosed)
    /\ Cached(op.id) = CachedBefore(op.id)

\* C9: whatever userloads[id], userloads[id] = v, read, read_all, pop and
\* close calls were made, every key of _loads is in user_ids, and user_ids
\* is the id list read from the file at construction.
C9_KeysAreUserIds ==
    /\ DOMAIN loads \subseteq user_ids
    /\ user_ids = LoadUserIds(cls, HDFStore)

C9_Witness ==
    /\ op.name = "setitem" /\ op.id \notin user_ids
    /\ ret = Raise(UnknownIdentifier)
    /\ DOMAIN loads # {}
    /\ DOMAIN loads \subseteq user_ids

\* C10: total_load with no user id raises IndexError (the failure the
\* specification calls EmptyIdentifierSet) instead of returning a series,
\* reads nothing from the store and leaves _loads as it was.
C10_EmptyIdsFail ==
    (op.name = "total_load" /\ op.ids = <<>>) =>
        ret = Raise(EmptyIdentifierSet) /\ storeReads = 0 /\ LoadsUnchanged

C10_Witness ==
    /\ op.name = "total_load" /\ op.ids = <<>>
    /\ ret = Raise(EmptyIdentifierSet)
    /\ DOMAIN loads # {} /\ LoadsUnchanged

\* The cache as it was before the last call, as the context of a call.
PreCtx ==
    Ctx(pre.loads,
        [r \in Range(pre.loads) |->
            pre.vals[CHOOSE i \in DOMAIN pre.loads : pre.loads[i] = r]])

\* What userloads[user_id] gave, or would have given, before the last call:
\* the series _loads held, or else the one in the file.
SeriesBefore(user_id) ==
    IF user_id \in DOMAIN pre.loads THEN CachedBefore(user_id)
    ELSE StoredSeries(user_id)

\* userloads[user_id] succeeded, or would have, before the last call.
Gettable(user_id) ==
    user_id \in DOMAIN pre.loads \/ (user_id \in user_ids /\ pre.store.open)

\* The sum at timestamp t of the series of ids[1..k].
RECURSIVE SumAt(_, _, _)
SumAt(ids, t, k) ==
    IF k = 0 THEN 0 ELSE SumAt(ids, t, k - 1) + SeriesBefore(ids[k])[t]

\* The element-wise sum, over the timestamps within period, of the series
\* of ids.
SumWithin(ids, period) ==
    [t \in {u \in Times : period[1] <= u /\ u <= period[2]} |->
        SumAt(ids, t, Len(ids))]

\* The id lists that are reorderings of ids.
Reorderings(ids) ==
    {q \in [1..Len(ids) -> Universe] :
        \A i \in Universe :
            Cardinality({k \in 1..Len(ids) : q[k] = i}) =
            Cardinality({k \in 1..Len(ids) : ids[k] = i})}

\* C11: for a non-empty list of valid ids, total_load returns the
\* element-wise sum, over the timestamps within the period, of what
\* userloads[id] gives for each id of the list (the series _loads holds, when
\* it holds one), and every reordering of the list gives an equal total; when
\* userloads[id] fails for an id of the list, total_load fails the same way,
\* in every order.
C11_TotalIsSum ==
    (op.name = "total_load" /\ op.ids # <<>>
        /\ \A k \in 1..Len(op.ids) : op.ids[k] \in user_ids) =>
        /\ IF \A k \in 1..Len(op.ids) : Gettable(op.ids[k])
           THEN ret.tag = "ref" /\ heap[ret.ref] = SumWithin(op.ids, op.period)
           ELSE ret = Raise(StoreClosed)
        /\ \A q \in Reorderings(op.ids) :
              LET c == total_load(PreCtx, q, op.period) IN
              /\ c.ret.tag = ret.tag /\ c.ret.exc = ret.exc
              /\ ret.tag = "ref" => c.heap[c.ret.ref] = heap[ret.ref]

C11_Witness ==
    /\ op.name = "total_load" /\ Len(op.ids) = 2 /\ op.ids[1] # op.ids[2]
    /\ \A k \in 1..2 : op.ids[k] \in user_ids
    /\ op.ids[1] \in DOMAIN pre.loads /\ CachedBefore(op.ids[1]) \in UserSeries
    /\ op.ids[2] \notin DOMAIN pre.loads
    /\ op.period = <<1, NumTimes>>
    /\ ret.tag = "ref"
    /\ heap[ret.ref] = [t \in Times |->
                          CachedBefore(op.ids[1])[t] + StoredSeries(op.ids[2])[t]]

\* The ids mean_experiment_load_for_user_subset drew in the last call.
Drawn == Truncate(op.ids, op.num_users)

\* C12 as stated: for num_users >= 1, every value of the series returned
\* by mean_experiment_load_for_user_subset is the total of the period
\* divided by num_users.
C12_DividesByCount ==
    (op.name = "mean_experiment_load" /\ op.num_users >= 1 /\ ret.tag = "ref") =>
        \A k \in 1..Len(experiment_periods) :
            heap[ret.ref][k] =
                Divide(SumWithin(Drawn, experiment_periods[k]), op.num_users)

\* C12 amended: every value is the total of the period over the ids drawn
\* divided by the number of ids drawn, which is num_users when user_ids has
\* that many ids and the number of ids of user_ids otherwise.
C12_DividesByDrawn ==
    (op.name = "mean_experiment_load" /\ op.num_users >= 1 /\ ret.tag = "ref") =>
        /\ Len(Drawn) = IF op.num_users <= Cardinality(user_ids) THEN op.num_users
                         ELSE Cardinality(user_ids)
        /\ Len(heap[ret.ref]) = Len(experiment_periods)
        /\ \A k \in 1..Len(experiment_periods) :
              heap[ret.ref][k] =
                  Divide(SumWithin(Drawn, experiment_periods[k]), Len(Drawn))

C12_Witness ==
    /\ op.name = "mean_experiment_load" /\ ret.tag = "ref"
    /\ op.num_users > Cardinality(user_ids)
    /\ Len(Drawn) = Cardinality(user_ids)
    /\ heap[ret.ref][1] = Divide(SumWithin(Drawn, experiment_periods[1]), Len(Drawn))

\* C14: read_all on an open store leaves in _loads, for every id of
\* user_ids, a series just read from the file and equal to the stored one,
\* whatever _loads held for the id before; it reads the file once for each
\* id of user_ids and returns None.
C14_ReadAllReloads ==
    (op.name = "read_all" /\ pre.store.open) =>
        /\ ret = RetNone
        /\ storeReads = Cardinality(user_ids)
        /\ \A user_id \in user_ids :
              /\ user_id \in DOMAIN loads
              /\ Cached(user_id) = StoredSeries(user_id)
              /\ loads[user_id] \notin Range(pre.loads)

C14_Witness ==
    /\ op.name = "read_all" /\ pre.store.open
    /\ \E user_id \in user_ids :
          /\ user_id \in DOMAIN pre.loads
          /\ CachedBefore(user_id) \in UserSeries
          /\ Cached(user_id) = StoredSeries(user_id)
    /\ storeReads = Cardinality(user_ids)

\* C15: after a pop(id) that returned a series, with the store open, the
\* next userloads[id] reads the file once, returns a series equal to the
\* stored one and keeps it in _loads, also when the series pop removed was
\* one the client had assigned.
C15_GetAfterPopReads ==
    (op.name = "pop" /\ ret.tag = "ref" /\ store.open) =>
        LET c == getitem(Ctx(loads, heap), op.id) IN
        /\ op.id \notin DOMAIN loads
        /\ c.reads = 1
        /\ c.ret.tag = "ref"
        /\ c.heap[c.ret.ref] = StoredSeries(op.id)
        /\ c.ret.ref # ret.ref
        /\ op.id \in DOMAIN c.loads /\ c.loads[op.id] = c.ret.ref

C15_Witness ==
    /\ op.name = "pop" /\ ret.tag = "ref" /\ store.open
    /\ op.id \in DOMAIN pre.loads
    /\ CachedBefore(op.id) \in UserSeries
    /\ heap[ret.ref] = CachedBefore(op.id)
    /\ getitem(Ctx(loads, heap), op.id).reads = 1

\* C16: close() on a cache closed already, and the close __del__ makes after
\* an explicit close, raise nothing, leave the store closed and leave _loads
\* and user_ids as they were; and no call opens a store that was closed.
C16_CloseIdempotent ==
    /\ ~pre.store.open => ~store.open
    /\ (op.name \in {"close", "del"} /\ ~pre.store.open) =>
          /\ ret = RetNone
          /\ LoadsUnchanged
          /\ user_ids = LoadUserIds(cls, HDFStore)

C16_Witness ==
    /\ op.name = "del" /\ ~pre.store.open
    /\ ret = RetNone /\ ~store.open
    /\ DOMAIN loads # {} /\ LoadsUnchanged

\* C17: total_load leaves every entry _loads held before the call as it was
\* (same object, same series); every entry it adds to _loads is for an id of
\* user_ids and equals the series stored in the file; and the total it
\* returns is an object of its own, none of those _loads holds.
C17_TotalLoadKeepsCache ==
    op.name = "total_load" =>
        /\ \A user_id \in DOMAIN pre.loads : EntryUnchanged(user_id)
        /\ \A user_id \in DOMAIN loads \ DOMAIN pre.loads :
              user_id \in user_ids /\ Cached(user_id) = StoredSeries(user_id)
        /\ ret.tag = "ref" => ret.ref \notin Range(loads)

C17_Witness ==
    /\ op.name = "total_load" /\ ret.tag = "ref" /\ Len(op.ids) >= 2
    /\ op.ids[1] \in DOMAIN pre.loads
    /\ Cached(op.ids[1]) = CachedBefore(op.ids[1])
    /\ DOMAIN loads # DOMAIN pre.loads
    /\ ret.ref \notin Range(loads)
    /\ op.period[1] <= op.period[2]

\* The element-wise sum of the series the file stores for ids[1..k].
RECURSIVE StoredSum(_, _)
StoredSum(ids, k) ==
    IF k = 0 THEN [t \in Times |-> 0]
    ELSE Add(StoredSum(ids, k - 1), StoredSeries(ids[k]))

\* C18: after NSK129(userloads) has returned, _loads holds for every id of
\* NSK129_user_ids(), the first one included, a series equal to the one
\* stored in the file, and the total returned is the element-wise sum of
\* the stored series of the ids listed.
C18_NSK129KeepsStored ==
    (op.name = "NSK129" /\ ret.tag = "ref") =>
        /\ \A k \in DOMAIN NSK129_user_ids :
              /\ NSK129_user_ids[k] \in DOMAIN loads
              /\ Cached(NSK129_user_ids[k]) = StoredSeries(NSK129_user_ids[k])
        /\ heap[ret.ref] = StoredSum(NSK129_user_ids, Len(NSK129_user_ids))

\* C19: read(id) for an id outside user_ids raises the KeyError that
\* userloads[id], userloads[id] = v and pop(id) raise for such an id, before
\* the file is read, and leaves _loads as it was; and read(id) for an id of
\* user_ids on a closed store raises the closed-store error and leaves the
\* entry _loads holds for id, like the rest of _loads, as it was.
C19_FailedReadKeepsLoads ==
    /\ (op.name = "read" /\ op.id \notin user_ids) =>
          /\ ret = Raise(UnknownIdentifier)
          /\ storeReads = 0
          /\ LoadsUnchanged
          /\ setitem(PreCtx, op.id, NoRef).ret = ret
          /\ pop(PreCtx, op.id).ret = ret
          /\ op.id \notin DOMAIN pre.loads => getitem(PreCtx, op.id).ret = ret
    /\ (op.name = "read" /\ op.id \in user_ids /\ ~pre.store.open) =>
          /\ ret = Raise(StoreClosed)
          /\ LoadsUnchanged

C19_Witness ==
    /\ op.name = "read" /\ ret.tag = "raise"
    /\ op.id \in DOMAIN pre.loads
    /\ CachedBefore(op.id) \in UserSeries
    /\ Cached(op.id) = CachedBefore(op.id)

====
